---- MODULE Spec2Model ----
(***************************************************************************)
(* Model of xblock/core.py: class tags (TagCombiningMetaclass, XBlock.tag, *)
(* XBlock.load_tagged_classes), XBlock.open_local_resource,                *)
(* XBlock.__init__ and the deprecated error aliases.                       *)
(* Strings are sequences of one-character strings, so that startswith,     *)
(* substring search, replace and split are computed character by character.*)
(***************************************************************************)
EXTENDS Integers, Sequences, FiniteSets, TLC

VARIABLES
    bases,          \* bases[c]: the tuple of base classes class c was created with
    mro,            \* mro[c]: c.__mro__, the C3 linearisation computed by type.__new__
    class_tags,     \* class_tags[c]: the set object c._class_tags is bound to in c's own dict (0: none)
    heap,           \* heap[o]: the content of set object o
    inherited,      \* history: the union of the bases' tags when c was created
    applied,        \* history: the words applied to c itself with the tag decorator
    ret,            \* the outcome of the last operation (return value or exception)
    cls_module,     \* open_local_resource: cls.__module__ of the class it is called on
    uri,            \* open_local_resource: the uri it is called with
    opened,         \* open_local_resource: the calls made to pkg_resources.resource_stream
    outcome,        \* open_local_resource: what the call returned or raised
    instances,      \* XBlock(...): per object constructed, the calls its base initialiser received
    init_ret,       \* XBlock(...): the arguments and outcome of the last construction
    warnings_log,   \* the calls made to warnings.warn
    errors          \* the error objects constructed

tagVars == <<bases, mro, class_tags, heap, inherited, applied, ret>>
resVars == <<cls_module, uri, opened, outcome>>
initVars == <<instances, init_ret>>
errVars == <<warnings_log, errors>>

vars == <<tagVars, resVars, initVars, errVars>>

----------------------------------------------------------------------------
(* Bounds *)

\* block classes defined on top of XBlock in the specification Spec
MaxClasses == 1

\* block classes defined on top of XBlock in the specification SpecClasses
MaxHierarchy == 2

\* characters of the uri after its first part
MaxUriTail == 4

\* XBlock objects constructed
MaxBlocks == 2

\* error objects constructed, and positional arguments given to each
MaxErrors == 2
MaxArgs == 1

----------------------------------------------------------------------------
(* Strings *)

Whitespace == {" ", "\t", "\n"}

\* a variant that leaves the commas in place
ReplaceNothing(s) == s
\* tags.replace(",", " ")
Replace(s) == [i \in 1..Len(s) |-> IF s[i] = "," THEN " " ELSE s[i]]

\* str.split() with no separator: runs of whitespace separate the words, and
\* no empty word is produced. Scans s from position i with the word in progress.
RECURSIVE SplitFrom(_, _, _)
SplitFrom(s, i, cur) ==
    IF i > Len(s)
    THEN IF cur = <<>> THEN <<>> ELSE <<cur>>
    ELSE IF s[i] \in Whitespace
         THEN IF cur = <<>>
              THEN SplitFrom(s, i + 1, <<>>)
              ELSE <<cur>> \o SplitFrom(s, i + 1, <<>>)
         ELSE SplitFrom(s, i + 1, Append(cur, s[i]))

Split(s) == SplitFrom(s, 1, <<>>)

\* the words handed to set.update by dec: tags.replace(",", " ").split()
TagWords(s) == LET l == Split(Replace(s)) IN {l[i] : i \in 1..Len(l)}

----------------------------------------------------------------------------
(* Classes *)

NumClasses == Len(bases)
Classes == 1..NumClasses

\* the mixin base (no _class_tags) and XBlock itself, as the module is imported
Mixin == 1
XBlock == 2

\* whether base._class_tags resolves (otherwise AttributeError)
HasTags(c) == class_tags[c] # 0
BlockClasses == {c \in Classes : HasTags(c)}

\* base._class_tags
Tags(c) == heap[class_tags[c]]

\* C3 linearisation failure marker (no class has this id)
NoMro == <<0>>

InTail(x, s) == \E i \in 2..Len(s) : s[i] = x

RECURSIVE Merge(_)
Merge(seqs) ==
    LET ne == SelectSeq(seqs, LAMBDA s : s # <<>>) IN
    IF ne = <<>> THEN <<>>
    ELSE LET good == {i \in 1..Len(ne) :
                        \A j \in 1..Len(ne) : ~InTail(Head(ne[i]), ne[j])} IN
         IF good = {} THEN NoMro
         ELSE LET i == CHOOSE k \in good : \A l \in good : k <= l
                  h == Head(ne[i])
                  rest == Merge([k \in 1..Len(ne) |->
                                   IF Head(ne[k]) = h THEN Tail(ne[k]) ELSE ne[k]])
              IN IF rest = NoMro THEN NoMro ELSE <<h>> \o rest

\* type.__new__ computes the new class's __mro__; an inconsistent order is a TypeError
Linearize(c, bs) ==
    LET m == Merge([k \in 1..(Len(bs) + 1) |->
                      IF k <= Len(bs) THEN mro[bs[k]] ELSE bs])
    IN IF m = NoMro THEN NoMro ELSE <<c>> \o m

\* the tuples of bases a class statement can name
BaseTuples ==
    {<<b>> : b \in Classes} \cup
    {<<p[1], p[2]>> : p \in {q \in Classes \X Classes : q[1] # q[2]}}

\* what the class body binds _class_tags to, if it binds it
Bodies == {"unbound", "empty", "z"}
BodyTags(body) == IF body = "z" THEN {<<"z">>} ELSE {}

\* TagCombiningMetaclass.__new__: the loop over bases updating class_tags; a
\* base without _class_tags raises AttributeError, which is passed over
RECURSIVE CombineFrom(_, _, _)
CombineFrom(bs, i, acc) ==
    IF i > Len(bs) THEN acc
    ELSE IF HasTags(bs[i])
         THEN CombineFrom(bs, i + 1, acc \cup Tags(bs[i]))
         ELSE CombineFrom(bs, i + 1, acc)

\* a variant that looks at the first base only
CombineFirstBase(bs, body) == CombineFrom(<<bs[1]>>, 1, {})
\* attrs['_class_tags'] = class_tags replaces whatever the body bound
CombineTags(bs, body) == CombineFrom(bs, 1, {})

\* a variant in which the class shares the set of its first tagged base
SharedTagObject(bs) ==
    LET i == CHOOSE k \in 1..Len(bs) :
                 HasTags(bs[k]) /\ \A l \in 1..(k - 1) : ~HasTags(bs[l])
    IN class_tags[bs[i]]
\* class_tags = set([]): the set object attrs['_class_tags'] is bound to
NewTagObject(bs) == Len(heap) + 1

\* the outcome of an operation: what it was called with (cls, arg, found),
\* what it returned (val, out) or raised (exc), how many times it called
\* load_classes (queries), and whether it repeats the call before it (again)
Ret(op, cls, arg, val, exc, found, out, queries, again) ==
    [op |-> op, cls |-> cls, arg |-> arg, val |-> val, exc |-> exc,
     found |-> found, out |-> out, queries |-> queries, again |-> again]

----------------------------------------------------------------------------
(* Operations on class tags *)

\* The strings given to the decorator
TagInputs ==
    { <<"v">>, <<"q">>, <<"v", ",", "q">>, <<>>,
      <<" ", "v", ",", ",", "q", "\t", "v", "\n">> }

\* The tags load_tagged_classes is asked for
LoadTags == { <<"v">>, <<"q">> }

\* the names of the entry points, in the order discovery enumerates them
PluginNames == <<"p1", "p2", "p3", "p4">>

\* what plugin discovery can enumerate: named block classes, in any order
Discoverable ==
    LET perms == UNION {[1..k -> BlockClasses] : k \in 0..Cardinality(BlockClasses)}
    IN {[i \in DOMAIN f |-> <<PluginNames[i], f[i]>>] :
          f \in {g \in perms : \A i, j \in DOMAIN g : i # j => g[i] # g[j]}}

InitTags ==
    /\ bases = << <<>>, <<Mixin>> >>
    /\ mro = << <<Mixin>>, <<XBlock, Mixin>> >>
    /\ class_tags = <<0, 1>>
    /\ heap = << {} >>
    /\ inherited = << {}, {} >>
    /\ applied = << {}, {} >>
    /\ ret = Ret("import", 0, <<>>, 0, "none", <<>>, <<>>, 0, FALSE)

\* class C(bs): ... with a base that is a block class, so that XBlockMetaclass
\* (and with it TagCombiningMetaclass.__new__) creates the class
DefineClass(bs, body) ==
    /\ \E i \in 1..Len(bs) : HasTags(bs[i])
    /\ LET c == NumClasses + 1
           m == Linearize(c, bs)
           tags == CombineTags(bs, body)
           obj == NewTagObject(bs)
       IN /\ m # NoMro
          /\ bases' = Append(bases, bs)
          /\ mro' = Append(mro, m)
          /\ heap' = Append(heap, tags)
          /\ class_tags' = Append(class_tags, obj)
          /\ ret' = Ret("class", c, <<>>, c, "none", <<>>, <<>>, 0, FALSE)

\* what dec returns
DecReturn(c) == c

\* a variant in which the sets of the subclasses are updated too
UpdatedWithSubclasses(c) == {class_tags[d] : d \in {e \in Classes : InTail(c, <<0>> \o mro[e])}}
\* the set objects cls._class_tags.update changes
Updated(c) == {class_tags[c]}

\* XBlock.tag(s)(c)
Tag(c, s) ==
    /\ IF HasTags(c)
       THEN /\ heap' = [o \in DOMAIN heap |->
                          IF o \in Updated(c) THEN heap[o] \cup TagWords(s) ELSE heap[o]]
            /\ ret' = Ret("tag", c, s, DecReturn(c), "none", <<>>, <<>>, 0, FALSE)
       ELSE /\ UNCHANGED heap
            /\ ret' = Ret("tag", c, s, 0, "AttributeError", <<>>, <<>>, 0, FALSE)
    /\ UNCHANGED <<bases, mro, class_tags>>

\* the generator's loop over the pairs of cls.load_classes(), run to exhaustion
RECURSIVE Yielded(_, _)
Yielded(pairs, tag) ==
    IF pairs = <<>> THEN <<>>
    ELSE IF tag \in Tags(Head(pairs)[2])
         THEN <<Head(pairs)>> \o Yielded(Tail(pairs), tag)
         ELSE Yielded(Tail(pairs), tag)

\* a variant that remembers what it yielded for the tag of the call before
LoadTaggedMemo(tag, pairs) ==
    IF ret.op = "load" /\ ret.arg = tag
    THEN [out |-> ret.out, queries |-> 0]
    ELSE [out |-> Yielded(pairs, tag), queries |-> 1]
\* a variant that yields only the last matching pair
LoadTaggedLast(tag, pairs) ==
    LET y == Yielded(pairs, tag)
    IN [out |-> IF y = <<>> THEN <<>> ELSE <<y[Len(y)]>>, queries |-> 1]
\* the pairs yielded, and the number of calls made to load_classes
load_tagged_classes(tag, pairs) ==
    [out |-> Yielded(pairs, tag), queries |-> 1]

\* list(XBlock.load_tagged_classes(tag)), with pairs what load_classes() enumerates:
\* the generator iterated to exhaustion in one step (its body, the call to
\* load_classes included, runs only as it is iterated)
LoadTaggedClasses(tag, pairs) ==
    /\ LET r == load_tagged_classes(tag, pairs)
       IN ret' = Ret("load", 0, tag, 0, "none", pairs, r.out, r.queries,
                     ret.op = "load" /\ ret.arg = tag /\ ret.found = pairs)
    /\ UNCHANGED <<bases, mro, class_tags, heap>>

----------------------------------------------------------------------------
(* XBlock.open_local_resource *)

PublicPrefix == <<"p", "u", "b", "l", "i", "c", "/">>

\* uri.startswith(prefix)
StartsWith(s, prefix) ==
    Len(s) >= Len(prefix) /\ SubSeq(s, 1, Len(prefix)) = prefix

\* sub in s
Contains(s, sub) ==
    \E i \in 1..(Len(s) - Len(sub) + 1) : SubSeq(s, i, i + Len(sub) - 1) = sub

\* not uri.startswith("public/")
OutsidePublic(u) == ~StartsWith(u, PublicPrefix)

\* variants that look for "/.." and for "." instead
UnsafeNameDotDot(u) == Contains(u, <<"/", ".", ".">>)
UnsafeNameAnyDot(u) == Contains(u, <<".">>)
\* "/." in uri
UnsafeName(u) == Contains(u, <<"/", ".">>)

\* the uris open_local_resource is called with, and the modules of the classes
UriChars == {"a", "/", "."}
UriHeads ==
    { PublicPrefix, <<"p", "u", "b", "l", "i", "c">>, <<"s", "e", "c", "r", "e", "t", "/">>,
      <<>>, <<"a", "/">> \o PublicPrefix }
UriTails == UNION {[1..n -> UriChars] : n \in 0..MaxUriTail}
UriInputs == {h \o t : h \in UriHeads, t \in UriTails}
Modules == {"xblock.core", "acme.blocks"}

\* what pkg_resources.resource_stream does with a uri it is given
LoaderResults == {"stream", "IOError"}

OpenLocalResource ==
    /\ outcome = "pending"
    /\ IF OutsidePublic(uri)
       THEN /\ outcome' = "DisallowedFileError: Only files from public/ are allowed"
            /\ UNCHANGED opened
       ELSE IF UnsafeName(uri)
            THEN /\ outcome' = "DisallowedFileError: Only safe file names are allowed"
                 /\ UNCHANGED opened
            ELSE /\ opened' = Append(opened, <<cls_module, uri>>)
                 /\ outcome' \in LoaderResults
    /\ UNCHANGED <<cls_module, uri>>

----------------------------------------------------------------------------
(* XBlock.__init__ *)

Runtimes == {"rt1", "rt2"}
FieldDatas == {"None", "fd1"}
\* "UNSET": the argument was left out, so that scope_ids is the module's UNSET object
ScopeIdsArgs == {"UNSET", "None", "ids1"}

\* a variant that takes None for a missing argument as well
IsUnsetOrNone(x) == x \in {"UNSET", "None"}
\* scope_ids is UNSET
IsUnset(x) == x = "UNSET"

\* what the base initialiser does with its arguments
BaseInitResults == {"none", "BaseInitError"}

\* XBlock(runtime, field_data, scope_ids)
ConstructBlock(runtime, field_data, scope_ids) ==
    /\ Len(instances) < MaxBlocks
    /\ IF IsUnset(scope_ids)
       THEN /\ instances' = Append(instances, <<>>)
            /\ init_ret' = [runtime |-> runtime, field_data |-> field_data,
                            scope_ids |-> scope_ids, exc |-> "TypeError"]
       ELSE /\ instances' = Append(instances,
                   << [runtime |-> runtime, scope_ids |-> scope_ids,
                       field_data |-> field_data] >>)
            /\ \E r \in BaseInitResults :
                  init_ret' = [runtime |-> runtime, field_data |-> field_data,
                               scope_ids |-> scope_ids, exc |-> r]

----------------------------------------------------------------------------
(* The deprecated error classes *)

CurrentKinds == {"exceptions.KeyValueMultiSaveError", "exceptions.XBlockSaveError"}
AliasKinds == {"core.KeyValueMultiSaveError", "core.XBlockSaveError"}

\* the base class each alias is declared with
AliasBase(kind) ==
    IF kind = "core.KeyValueMultiSaveError" THEN "exceptions.KeyValueMultiSaveError"
    ELSE "exceptions.XBlockSaveError"

\* isinstance(obj, kind)
IsInstance(obj, kind) ==
    \/ obj.cls = kind
    \/ obj.cls \in AliasKinds /\ AliasBase(obj.cls) = kind

\* the message of each alias's warning
AliasMessage(kind) ==
    IF kind = "core.KeyValueMultiSaveError"
    THEN "Please use xblock.exceptions.KeyValueMultiSaveError"
    ELSE "Please use xblock.exceptions.XBlockSaveError"

ArgValues == {"f1", "f2"}
ArgTuples == UNION {[1..n -> ArgValues] : n \in 0..MaxArgs}
KwArgs == {<<>>, << <<"message", "m">> >>}

\* a variant that hands nothing on
ForwardNoArgs(a) == <<>>
\* the *args and **kwargs handed to super().__init__
Forward(a) == a

\* core.KeyValueMultiSaveError(*args, **kwargs), core.XBlockSaveError(*args, **kwargs)
ConstructAlias(kind, args, kwargs) ==
    /\ Len(errors) < MaxErrors
    /\ warnings_log' = Append(warnings_log,
           [message |-> AliasMessage(kind), category |-> "DeprecationWarning",
            stacklevel |-> 2])
    /\ errors' = Append(errors,
           [cls |-> kind, args |-> args, kwargs |-> kwargs,
            init_calls |-> << [cls |-> AliasBase(kind), args |-> Forward(args),
                               kwargs |-> Forward(kwargs)] >>])

\* the current error kinds of xblock.exceptions, constructed directly
ConstructCurrent(kind, args, kwargs) ==
    /\ Len(errors) < MaxErrors
    /\ errors' = Append(errors,
           [cls |-> kind, args |-> args, kwargs |-> kwargs,
            init_calls |-> << [cls |-> kind, args |-> args, kwargs |-> kwargs] >>])
    /\ UNCHANGED warnings_log

----------------------------------------------------------------------------
(* History, kept beside the program: what each class's tags come from *)

Separators == Whitespace \cup {","}

\* the words of s: the maximal runs of characters that are not separators
WordsOf(s) ==
    {SubSeq(s, p[1], p[2]) :
       p \in {q \in (1..Len(s)) \X (1..Len(s)) :
                /\ q[1] <= q[2]
                /\ \A k \in q[1]..q[2] : s[k] \notin Separators
                /\ (q[1] = 1 \/ s[q[1] - 1] \in Separators)
                /\ (q[2] = Len(s) \/ s[q[2] + 1] \in Separators)}}

\* the tags the bases bs carry now
BaseTagsNow(bs) == UNION {Tags(bs[i]) : i \in {j \in 1..Len(bs) : HasTags(bs[j])}}

RecordDefine(bs) ==
    /\ inherited' = Append(inherited, BaseTagsNow(bs))
    /\ applied' = Append(applied, {})

RecordTag(c, s) ==
    /\ applied' = [applied EXCEPT ![c] = IF HasTags(c) THEN @ \cup WordsOf(s) ELSE @]
    /\ UNCHANGED inherited

NoRecord == UNCHANGED <<inherited, applied>>

----------------------------------------------------------------------------
(* Specifications *)

\* nothing has called open_local_resource, constructed a block or an error
NoResourceCall ==
    /\ cls_module = "" /\ uri = <<>> /\ opened = <<>> /\ outcome = "idle"
NoBlocks ==
    /\ instances = <<>>
    /\ init_ret = [runtime |-> "", field_data |-> "", scope_ids |-> "", exc |-> "idle"]
NoErrors ==
    /\ warnings_log = <<>> /\ errors = <<>>

Init == InitTags /\ NoResourceCall /\ NoBlocks /\ NoErrors

Next ==
    \/ \E bs \in BaseTuples, body \in Bodies :
          /\ NumClasses < 2 + MaxClasses
          /\ DefineClass(bs, body) /\ RecordDefine(bs)
          /\ UNCHANGED <<resVars, initVars, errVars>>
    \/ \E c \in Classes, s \in TagInputs :
          Tag(c, s) /\ RecordTag(c, s) /\ UNCHANGED <<resVars, initVars, errVars>>
    \/ \E t \in LoadTags, pairs \in Discoverable :
          LoadTaggedClasses(t, pairs) /\ NoRecord /\ UNCHANGED <<resVars, initVars, errVars>>

Spec == Init /\ [][Next]_vars

\* class hierarchies with several tagged bases, without the history
NextClasses ==
    \/ \E bs \in BaseTuples, body \in Bodies :
          /\ NumClasses < 2 + MaxHierarchy
          /\ DefineClass(bs, body) /\ NoRecord
          /\ UNCHANGED <<resVars, initVars, errVars>>
    \/ \E c \in Classes, s \in {<<"v">>, <<"q">>, <<"v", ",", "q">>} :
          Tag(c, s) /\ NoRecord /\ UNCHANGED <<resVars, initVars, errVars>>

SpecClasses == Init /\ [][NextClasses]_vars

InitResource ==
    /\ InitTags /\ NoBlocks /\ NoErrors
    /\ cls_module \in Modules
    /\ uri \in UriInputs
    /\ opened = <<>>
    /\ outcome = "pending"

NextResource ==
    OpenLocalResource /\ UNCHANGED <<tagVars, initVars, errVars>>

SpecResource == InitResource /\ [][NextResource]_vars

NextInit ==
    \E runtime \in Runtimes, field_data \in FieldDatas, scope_ids \in ScopeIdsArgs :
        ConstructBlock(runtime, field_data, scope_ids)
            /\ UNCHANGED <<tagVars, resVars, errVars>>

SpecInit == Init /\ [][NextInit]_vars

NextErrors ==
    \/ \E kind \in AliasKinds, args \in ArgTuples, kwargs \in KwArgs :
          ConstructAlias(kind, args, kwargs) /\ UNCHANGED <<tagVars, resVars, initVars>>
    \/ \E kind \in CurrentKinds, args \in ArgTuples, kwargs \in KwArgs :
          ConstructCurrent(kind, args, kwargs) /\ UNCHANGED <<tagVars, resVars, initVars>>

SpecErrors == Init /\ [][NextErrors]_vars

----------------------------------------------------------------------------
(* Claims about class tags *)

Range(f) == {f[i] : i \in DOMAIN f}

\* C3 as stated: once a class exists, no operation changes its tag set.
C3_TagSetNeverChanges ==
    [][\A c \in BlockClasses : Tags(c)' = Tags(c)]_vars

\* C3 as amended: the tag set of an existing class changes only when the tag
\* decorator is applied to that very class, and then it only gains tags;
\* tagging another class, defining classes and load_tagged_classes leave it alone.
C3_OnlyOwnTagChanges ==
    [][\A c \in BlockClasses :
          /\ class_tags'[c] = class_tags[c]
          /\ Tags(c) \subseteq Tags(c)'
          /\ Tags(c)' # Tags(c) =>
                ret'.op = "tag" /\ ret'.cls = c /\ ret'.exc = "none"]_vars

\* XBlock was tagged after its creation (and after a subclass was created),
\* and the subclass's set was left as it was
C3_Witness ==
    /\ ret.op = "tag" /\ ret.cls = XBlock /\ ret.exc = "none"
    /\ NumClasses >= 3
    /\ Tags(XBlock) # {}
    /\ Tags(3) = {}

\* C4: a class just created carries exactly the union of the tag sets its bases
\* carry at that moment; bases without a tag set contribute nothing.
C4_UnionOfBases ==
    [][NumClasses' = NumClasses + 1 =>
         \A c \in {NumClasses + 1} : \A bs \in {bases'[c]} :
            /\ HasTags(c)'
            /\ \A i \in 1..Len(bs) : HasTags(bs[i]) => Tags(bs[i]) \subseteq Tags(c)'
            /\ \A w \in Tags(c)' : \E i \in 1..Len(bs) : HasTags(bs[i]) /\ w \in Tags(bs[i])]_vars

\* a class was just created from two tagged bases, each with a tag the other lacks
C4_Witness ==
    /\ ret.op = "class"
    /\ LET bs == bases[ret.cls]
       IN /\ Len(bs) = 2 /\ HasTags(bs[1]) /\ HasTags(bs[2])
          /\ Tags(bs[1]) \ Tags(bs[2]) # {}
          /\ Tags(bs[2]) \ Tags(bs[1]) # {}
          /\ Tags(ret.cls) = Tags(bs[1]) \cup Tags(bs[2])

\* C5: load_tagged_classes(t) yields, in discovery order, exactly the discovered
\* pairs whose class carries t: the yielded sequence is the discovered one with
\* the pairs of the classes without t struck out.
C5_ExactFilter ==
    ret.op = "load" =>
        \E idx \in [1..Len(ret.out) -> 1..Len(ret.found)] :
            /\ \A k, l \in DOMAIN idx : k < l => idx[k] < idx[l]
            /\ \A k \in DOMAIN idx : ret.out[k] = ret.found[idx[k]]
            /\ \A i \in 1..Len(ret.found) :
                  (ret.arg \in Tags(ret.found[i][2])) <=> (i \in Range(idx))

\* a subclass that was never tagged itself is yielded, before its base, for a
\* tag its base carried when the subclass was defined
C5_Witness ==
    /\ ret.op = "load"
    /\ NumClasses >= 3
    /\ ret.found = << <<"p1", 3>>, <<"p2", XBlock>> >>
    /\ ret.out = ret.found
    /\ applied[3] = {}
    /\ ret.arg \in inherited[3]

C9_TagAddsWords ==
    [][\A c \in BlockClasses : (ret'.op = "tag" /\ ret'.cls = c) =>
            /\ ret'.exc = "none"
            /\ ret'.val = c
            /\ Tags(c)' = Tags(c) \cup WordsOf(ret'.arg)
            /\ \A d \in BlockClasses \ {c} : Tags(d)' = Tags(d)
            /\ class_tags' = class_tags]_vars

\* a subclass was tagged with " v,,q<tab>v<newline>": it gained the two words v
\* and q, and XBlock, its base, still has no tag
C9_Witness ==
    /\ ret.op = "tag" /\ ret.cls = 3 /\ ret.val = 3
    /\ ret.arg = <<" ", "v", ",", ",", "q", "\t", "v", "\n">>
    /\ Tags(3) = {<<"v">>, <<"q">>}
    /\ XBlock \in Range(bases[3])
    /\ Tags(XBlock) = {}

\* C10: a class's tags are those its bases carried when it was created plus
\* those applied to it since; a tag given to a base afterwards is not one of
\* them, and load_tagged_classes for it does not yield the class.
C10_Snapshot ==
    /\ \A c \in BlockClasses : Tags(c) = inherited[c] \cup applied[c]
    /\ ret.op = "load" =>
          \A i \in 1..Len(ret.found) :
              ret.arg \notin (inherited[ret.found[i][2]] \cup applied[ret.found[i][2]])
                  => ret.found[i] \notin Range(ret.out)

\* XBlock was tagged after its subclass was created: load_tagged_classes for
\* that tag yields XBlock and not the subclass
C10_Witness ==
    /\ ret.op = "load"
    /\ NumClasses >= 3
    /\ XBlock \in Range(mro[3])
    /\ ret.arg \in applied[XBlock]
    /\ ret.arg \notin Tags(3)
    /\ ret.found = << <<"p1", 3>>, <<"p2", XBlock>> >>
    /\ ret.out = << <<"p2", XBlock>> >>

----------------------------------------------------------------------------
(* Claims about open_local_resource *)

\* the first characters of u are those of "public/"
BeginsWithPublic(u) ==
    Len(u) >= 7 /\ \A i \in 1..7 : u[i] = PublicPrefix[i]

\* the path segments of u: the pieces between its slashes
RECURSIVE SegmentsFrom(_, _, _)
SegmentsFrom(u, i, cur) ==
    IF i > Len(u) THEN <<cur>>
    ELSE IF u[i] = "/" THEN <<cur>> \o SegmentsFrom(u, i + 1, <<>>)
         ELSE SegmentsFrom(u, i + 1, Append(cur, u[i]))
Segments(u) == SegmentsFrom(u, 1, <<>>)

HasDotSegment(u) ==
    \E k \in 1..Len(Segments(u)) : Segments(u)[k] # <<>> /\ Head(Segments(u)[k]) = "."

Permitted(u) == BeginsWithPublic(u) /\ ~HasDotSegment(u)

Disallowed ==
    outcome \in {"DisallowedFileError: Only files from public/ are allowed",
                 "DisallowedFileError: Only safe file names are allowed"}

\* C1: a uri that does not begin with "public/" or has a path segment starting
\* with a dot is refused with DisallowedFileError, and resource_stream is not called.
C1_Rejects ==
    (outcome \notin {"idle", "pending"} /\ ~Permitted(uri)) => (Disallowed /\ opened = <<>>)

\* "public/.a" was refused for its name
C1_Witness ==
    /\ uri = PublicPrefix \o <<".", "a">>
    /\ outcome = "DisallowedFileError: Only safe file names are allowed"
    /\ opened = <<>>

\* C2: a uri is refused exactly when it is not permitted (public prefix and no
\* dot-prefixed segment); a permitted uri is handed unmodified, with the module
\* of the class, to resource_stream, once.
C2_Accepts ==
    outcome \notin {"idle", "pending"} =>
        /\ Permitted(uri) <=> ~Disallowed
        /\ Permitted(uri) =>
              opened = << <<cls_module, uri>> >> /\ outcome \in LoaderResults

\* "public/a.a" was opened in the module of the class
C2_Witness ==
    /\ uri = PublicPrefix \o <<"a", ".", "a">>
    /\ cls_module = "acme.blocks"
    /\ outcome = "stream"
    /\ opened = << <<"acme.blocks", uri>> >>

----------------------------------------------------------------------------
(* Claims about the deprecated error classes *)

Aliases == {i \in DOMAIN errors : errors[i].cls \in AliasKinds}

\* the current error kind each deprecated name stands for
CurrentOf(kind) ==
    CASE kind = "core.KeyValueMultiSaveError" -> "exceptions.KeyValueMultiSaveError"
      [] kind = "core.XBlockSaveError" -> "exceptions.XBlockSaveError"

\* C7: each construction of a deprecated alias calls warnings.warn once, with a
\* DeprecationWarning, and initialises the current error kind once with the
\* arguments it was given; the object is an instance of the current kind and is
\* initialised as a current-kind object constructed with these arguments is.
C7_AliasPassThrough ==
    /\ Len(warnings_log) = Cardinality(Aliases)
    /\ \A i \in DOMAIN warnings_log : warnings_log[i].category = "DeprecationWarning"
    /\ \A i \in Aliases :
          /\ IsInstance(errors[i], CurrentOf(errors[i].cls))
          /\ errors[i].init_calls =
                << [cls |-> CurrentOf(errors[i].cls), args |-> errors[i].args,
                    kwargs |-> errors[i].kwargs] >>
          /\ \A j \in DOMAIN errors :
                (/\ errors[j].cls = CurrentOf(errors[i].cls)
                 /\ errors[j].args = errors[i].args
                 /\ errors[j].kwargs = errors[i].kwargs)
                    => errors[j].init_calls = errors[i].init_calls

\* an alias and the current kind were constructed with the same arguments
C7_Witness ==
    /\ Len(errors) = 2
    /\ errors[1].cls = "core.XBlockSaveError"
    /\ errors[2].cls = "exceptions.XBlockSaveError"
    /\ errors[1].args = <<"f1">> /\ errors[2].args = <<"f1">>
    /\ errors[1].kwargs = << <<"message", "m">> >> /\ errors[2].kwargs = errors[1].kwargs
    /\ Len(warnings_log) = 1

----------------------------------------------------------------------------
(* Claims about XBlock.__init__ *)

\* C8: a construction without scope_ids raises TypeError before the base
\* initialiser is called; with scope_ids, None included, the base initialiser is
\* called once with the runtime, scope_ids and field_data given.
C8_ScopeIdsRequired ==
    instances # <<>> =>
        /\ init_ret.scope_ids = "UNSET" =>
              init_ret.exc = "TypeError" /\ instances[Len(instances)] = <<>>
        /\ init_ret.scope_ids # "UNSET" =>
              /\ init_ret.exc # "TypeError"
              /\ instances[Len(instances)] =
                    << [runtime |-> init_ret.runtime, scope_ids |-> init_ret.scope_ids,
                        field_data |-> init_ret.field_data] >>

\* after a construction without scope_ids failed, one with scope_ids=None went through
C8_Witness ==
    /\ Len(instances) = 2
    /\ instances[1] = <<>>
    /\ init_ret.scope_ids = "None" /\ init_ret.exc = "none"
    /\ Len(instances[2]) = 1

====
